---------------------------- MODULE Spec2Model ----------------------------
(***************************************************************************)
(* A model of the candidate-selection analysis scripts of TROREP:          *)
(*   analysis/analyze_doc_balancing.py    get_balanced_ranking,            *)
(*                                        get_balanced_counts              *)
(*   analysis/analyze_dreq_filtering.py   collect_filtered_eqrels,         *)
(*                                        filter_ranking, get_statistics   *)
(*   analysis/analyze_shared_entities.py  get_classified_entities          *)
(*   analysis/analyze_illegal_entities.py validate_topic_entities          *)
(*   analysis/analyze_entity_prevalence.py main                            *)
(*   analysis/analyze_ranking_decomposition.py main                        *)
(*   analysis/utils/utils.py              collect_decomposed_ranking,      *)
(*                                        collect_entity_rank_prevalence   *)
(*                                                                         *)
(* A Python dict is modelled with its insertion order where the code       *)
(* depends on it: a per-query ranking {doc_id: score} is a sequence of     *)
(* records [id, score] with pairwise distinct ids; a dict that is only     *)
(* looked up by key is a TLA+ function whose DOMAIN is its key set.        *)
(***************************************************************************)
EXTENDS Integers, Sequences, FiniteSets, TLC

VARIABLES
    pc,             \* position of the script that is running
    ranking,        \* rank_dict: topic -> sequence of [id, score]
    qrels,          \* qrel_dict: topic -> (doc id -> grade)
    result,         \* get_balanced_ranking(ranking, qrels)
    result2,        \* get_balanced_ranking(result, qrels)
    warnings,       \* what logging.warning was called about
    docs_per_rel,   \* collect_decomposed_ranking: three lists of counts
    topics_done,    \* topics visited so far by collect_decomposed_ranking
    skipped,        \* topics collect_decomposed_ranking warned about
    classes,        \* positive, negative, unknown of its latest iteration
    ent_qrels,      \* filter_ranking: topic -> (entity id -> grade)
    doc_ents,       \* filter_ranking: doc id -> set of linked entity ids
    f_initial,      \* the lines of the initial ranking read so far
    f_out,          \* the lines written to the filtered ranking
    group,          \* the key of the groupby group being iterated, if any
    scored_ents,    \* scored_ents of that group
    rank,           \* rank of that group
    doc_count,      \* doc_count
    class_entities, \* get_classified_entities: result, a key per topic done
    rows,           \* get_balanced_counts: the rows returned
    topic_res,      \* validate_topic_entities: its arguments and its result
    fil_dict,       \* get_statistics: topic -> set of filtered doc ids
    ref_dict,       \* get_statistics: topic -> set of reference doc ids
    comparable_queries, \* get_statistics: comparable_queries
    overlaps,       \* get_statistics: the list overlaps, as <<num, den>>
    overlap_qids,   \* the query each element of overlaps was computed for
    eqrels_dict,    \* collect_filtered_eqrels: topic -> sequence of [id, grade]
    filtered_eqrels,\* collect_filtered_eqrels: the dict returned
    ents_per_topic, \* collect_entity_rank_prevalence: topic -> [id, score]*
    top_k,          \* its argument k: <<>> for None, <<k>> otherwise
    avg_ranks,      \* its first result: entity -> <<sum of ranks, count>>
    avg_prevs       \* its second result: entity -> <<count, topic_count>>

balance_vars == <<ranking, qrels, result, result2, warnings,
                  docs_per_rel, topics_done, skipped, classes>>

filter_vars == <<ent_qrels, doc_ents, f_initial, f_out, group, scored_ents,
                 rank, doc_count>>

stats_vars == <<fil_dict, ref_dict, comparable_queries, overlaps, overlap_qids>>

eqrels_vars == <<eqrels_dict, filtered_eqrels>>

prevalence_vars == <<ents_per_topic, top_k, avg_ranks, avg_prevs>>

more_vars == <<rows, topic_res, stats_vars, eqrels_vars, prevalence_vars>>

vars == <<pc, balance_vars, filter_vars, class_entities, more_vars>>

----------------------------------------------------------------------------
(* Bounds of the model.                                                    *)

\* ranked candidates in the whole ranking (over all topics)
MaxDocs == 3

Topics == {"q1", "q2"}

\* scores; two values are enough for ties and for both strict orders
Scores == {1, 2}

\* relevance grades pytrec_eval.parse_qrel can deliver (any integer):
\* an invalid negative grade, non-relevant, and two relevant grades
Grades == {-1, 0, 1, 2}

----------------------------------------------------------------------------
(* Helpers shared by the scripts.                                          *)

Min(a, b) == IF a <= b THEN a ELSE b

Range(s) == {s[i] : i \in DOMAIN s}

\* s[:k]
Take(s, k) == SubSeq(s, 1, Min(k, Len(s)))

\* dict.keys() of a per-query ranking
Keys(docs) == {docs[i].id : i \in DOMAIN docs}

\* the dict as a set of (key, value) pairs: what Python's dict == compares
Items(docs) == {<<docs[i].id, docs[i].score>> : i \in DOMAIN docs}

\* topic_qrels.get(d, default)
Get(topic_qrels, d, default) ==
    IF d \in DOMAIN topic_qrels THEN topic_qrels[d] ELSE default

\* qrels.get(topic, {})
TopicQrels(q, topic) == IF topic \in DOMAIN q THEN q[topic] ELSE << >>

\* sorted(docs.keys(), key=lambda x: docs[x], reverse=True): a stable sort,
\* so the element at index i lands behind every element with a greater score
\* and behind the earlier elements of equal score.
SortedIds(docs) ==
    LET n == Len(docs)
        Before(i) == {j \in 1..n : \/ docs[j].score > docs[i].score
                                   \/ /\ docs[j].score = docs[i].score
                                      /\ j < i}
        At(p) == CHOOSE i \in 1..n : Cardinality(Before(i)) = p - 1
    IN  [p \in 1..n |-> docs[At(p)].id]

----------------------------------------------------------------------------
(* analyze_doc_balancing.py                                                *)

\* pos_docs = [d for d in sorted_ids if topic_qrels.get(d, 0) >= 1]
PosDocs(docs, topic_qrels) ==
    LET IsPos(d) == Get(topic_qrels, d, 0) >= 1
    IN  SelectSeq(SortedIds(docs), IsPos)

\* neg_docs = [d for d in sorted_ids if topic_qrels.get(d, 0) == 0]
NegDocs(docs, topic_qrels) ==
    LET IsNeg(d) == Get(topic_qrels, d, 0) = 0
    IN  SelectSeq(SortedIds(docs), IsNeg)

\* k = min(len(pos_docs), len(neg_docs))
BalanceK(docs, topic_qrels) ==
    Min(Len(PosDocs(docs, topic_qrels)), Len(NegDocs(docs, topic_qrels)))

\* an off-by-one slice of the negative class: neg_docs[:k - 1]
BalancedIdsShortNeg(docs, topic_qrels) ==
    LET k == BalanceK(docs, topic_qrels)
    IN  Range(Take(PosDocs(docs, topic_qrels), k))
            \cup Range(Take(NegDocs(docs, topic_qrels), k - 1))

\* balanced_ids = set(pos_docs[:k] + neg_docs[:k])
BalancedIds(docs, topic_qrels) ==
    LET k == BalanceK(docs, topic_qrels)
    IN  Range(Take(PosDocs(docs, topic_qrels), k))
            \cup Range(Take(NegDocs(docs, topic_qrels), k))

\* {doc_id: score for doc_id, score in docs.items() if doc_id in balanced_ids}
BalancedEntry(docs, topic_qrels) ==
    LET ids == BalancedIds(docs, topic_qrels)
        Kept(e) == e.id \in ids
    IN  SelectSeq(docs, Kept)

\* the dict get_balanced_ranking returns: a key for every topic with k > 0
get_balanced_ranking(r, q) ==
    LET emitted == {t \in DOMAIN r : BalanceK(r[t], TopicQrels(q, t)) > 0}
    IN  [t \in emitted |-> BalancedEntry(r[t], TopicQrels(q, t))]

\* the topics of the else branch: logging.warning("Could not balance ...")
BalanceWarnings(r, q) ==
    {t \in DOMAIN r : ~ (BalanceK(r[t], TopicQrels(q, t)) > 0)}

----------------------------------------------------------------------------
(* Inputs: what pytrec_eval.parse_run and parse_qrel can deliver.          *)

\* a per-query ranking of n candidates; ids are numbered in insertion order
Entries(n) ==
    {[i \in 1..n |-> [id |-> i, score |-> f[i]]] : f \in [1..n -> Scores]}

\* the judgments of one topic over the ids lo..n: 1..n are its ranked
\* candidates, and id 0 is a judged document that is not ranked (its grade is
\* kept to one value); parse_qrel creates a topic only with a judgment, so no
\* topic maps to an empty dict
Judgments(lo, n) ==
    {g \in UNION {[D -> Grades] : D \in (SUBSET (lo..n)) \ {{}}} :
        0 \in DOMAIN g => g[0] = 1}

\* one topic: absent from the ranking (n = 0), or ranked with or without qrels
TopicInputs(lo, n) ==
    IF n = 0 THEN {[ranked |-> FALSE, judged |-> FALSE]}
    ELSE {[ranked |-> TRUE, judged |-> FALSE, docs |-> e] : e \in Entries(n)}
         \cup {[ranked |-> TRUE, judged |-> TRUE, docs |-> e, grades |-> g] :
                  e \in Entries(n), g \in Judgments(lo, n)}

MkRanking(inp) == [t \in {u \in Topics : inp[u].ranked} |-> inp[t].docs]

MkQrels(inp) == [t \in {u \in Topics : inp[u].judged} |-> inp[t].grades]

NoClasses == [positive |-> << >>, negative |-> << >>, unknown |-> << >>]

\* the other functions have not been called
MoreIdle ==
    /\ rows = << >>
    /\ topic_res = << >>
    /\ fil_dict = << >>
    /\ ref_dict = << >>
    /\ comparable_queries = {}
    /\ overlaps = << >>
    /\ overlap_qids = << >>
    /\ eqrels_dict = << >>
    /\ filtered_eqrels = << >>
    /\ ents_per_topic = << >>
    /\ top_k = << >>
    /\ avg_ranks = << >>
    /\ avg_prevs = << >>

\* filter_ranking is not running
FilterIdle ==
    /\ ent_qrels = << >>
    /\ doc_ents = << >>
    /\ f_initial = << >>
    /\ f_out = << >>
    /\ group = << >>
    /\ scored_ents = {}
    /\ rank = 1
    /\ doc_count = 0
    /\ class_entities = << >>

\* a ranking of at most MaxDocs candidates and qrels judging the ids lo..n
InitInputs(lo) ==
    /\ \E n1 \in 0..MaxDocs : \E n2 \in 0..(MaxDocs - n1) :
         \E a \in TopicInputs(lo, n1), b \in TopicInputs(lo, n2) :
            LET inp == [t \in Topics |-> IF t = "q1" THEN a ELSE b]
            IN  /\ ranking = MkRanking(inp)
                /\ qrels = MkQrels(inp)
    /\ pc = "start"
    /\ result = << >>
    /\ result2 = << >>
    /\ warnings = {}
    /\ docs_per_rel = NoClasses
    /\ topics_done = << >>
    /\ skipped = {}
    /\ classes = NoClasses
    /\ FilterIdle
    /\ MoreIdle

\* get_balanced_ranking reads the judgments of ranked candidates only
InitBalance == InitInputs(1)

\* collect_decomposed_ranking also tells a topic judged only on unranked
\* documents from a topic missing from the qrels
InitDecompose == InitInputs(0)

\* rank_balanced = get_balanced_ranking(rank_dict, qrel_dict)
Balance ==
    /\ pc = "start"
    /\ result' = get_balanced_ranking(ranking, qrels)
    /\ warnings' = BalanceWarnings(ranking, qrels)
    /\ pc' = "balanced"
    /\ UNCHANGED <<ranking, qrels, result2, docs_per_rel, topics_done, skipped,
                   classes, filter_vars, class_entities, more_vars>>

\* get_balanced_ranking applied to its own output
Rebalance ==
    /\ pc = "balanced"
    /\ result2' = get_balanced_ranking(result, qrels)
    /\ warnings' = warnings \cup BalanceWarnings(result, qrels)
    /\ pc' = "rebalanced"
    /\ UNCHANGED <<ranking, qrels, result, docs_per_rel, topics_done, skipped,
                   classes, filter_vars, class_entities, more_vars>>

\* the orders in which a dict with the key set S can be iterated
Orders(S) == {o \in [1..Cardinality(S) -> S] : Range(o) = S}

\* the difference taken the wrong way round: len(docs_bal) - len(docs)
BalancedCountsRowNegated(topic, docs, docs_bal) ==
    [Query  |-> topic,
     Before |-> Len(docs),
     After  |-> Len(docs_bal),
     Pruned |-> Len(docs_bal) - Len(docs)]

\* rows.append({"Query": ..., "Num. Documents (Before)": ..., ...})
BalancedCountsRow(topic, docs, docs_bal) ==
    [Query  |-> topic,
     Before |-> Len(docs),
     After  |-> Len(docs_bal),
     Pruned |-> Len(docs) - Len(docs_bal)]

\* get_balanced_counts(ranking, balanced), ranking.items() iterated in order o:
\* "if topic not in balanced: continue"
get_balanced_counts(r, balanced, o) ==
    LET InBalanced(topic) == topic \in DOMAIN balanced
        kept == SelectSeq(o, InBalanced)
    IN  [i \in DOMAIN kept |->
            BalancedCountsRow(kept[i], r[kept[i]], balanced[kept[i]])]

\* get_balanced_counts(rank_dict, rank_balanced)
BalancedCounts ==
    /\ pc = "balanced"
    /\ \E o \in Orders(DOMAIN ranking) :
          rows' = get_balanced_counts(ranking, result, o)
    /\ pc' = "counted"
    /\ UNCHANGED <<balance_vars, filter_vars, class_entities, topic_res,
                   stats_vars, eqrels_vars, prevalence_vars>>

NextBalance == Balance \/ Rebalance \/ BalancedCounts

SpecBalance == InitBalance /\ [][NextBalance]_vars

----------------------------------------------------------------------------
(* utils/utils.py: collect_decomposed_ranking                              *)

\* doc_ranking.get(topic).keys(), in the dict's order
IdsOf(docs) == [i \in DOMAIN docs |-> docs[i].id]

\* rel = qrel_dict.get(doc_id, None); if rel is None: unknown.append(doc_id)
DecUnknown(docs, qrel_dict) ==
    LET Test(d) == d \notin DOMAIN qrel_dict
    IN  SelectSeq(IdsOf(docs), Test)

\* elif rel >= 1: positive.append(doc_id)
DecPositive(docs, qrel_dict) ==
    LET Test(d) == d \in DOMAIN qrel_dict /\ qrel_dict[d] >= 1
    IN  SelectSeq(IdsOf(docs), Test)

\* else: negative.append(doc_id)
DecNegative(docs, qrel_dict) ==
    LET Test(d) == d \in DOMAIN qrel_dict /\ ~ (qrel_dict[d] >= 1)
    IN  SelectSeq(IdsOf(docs), Test)

\* the topics the loop "for topic in topics" has not visited yet
DecRemaining == DOMAIN ranking \ (Range(topics_done) \cup skipped)

\* one iteration of "for topic in topics"; topics is a set, so any order
DecomposeTopic ==
    /\ pc \in {"start", "decomposing"}
    /\ \E topic \in DecRemaining :
         IF topic \notin DOMAIN qrels
         THEN /\ skipped' = skipped \cup {topic}
              /\ UNCHANGED <<docs_per_rel, topics_done, classes>>
         ELSE LET positive == DecPositive(ranking[topic], qrels[topic])
                  negative == DecNegative(ranking[topic], qrels[topic])
                  unknown  == DecUnknown(ranking[topic], qrels[topic])
              IN  /\ classes' = [positive |-> positive,
                                 negative |-> negative,
                                 unknown  |-> unknown]
                  /\ docs_per_rel' =
                       [positive |-> Append(docs_per_rel.positive, Len(positive)),
                        negative |-> Append(docs_per_rel.negative, Len(negative)),
                        unknown  |-> Append(docs_per_rel.unknown, Len(unknown))]
                  /\ topics_done' = Append(topics_done, topic)
                  /\ UNCHANGED skipped
    /\ pc' = "decomposing"
    /\ UNCHANGED <<ranking, qrels, result, result2, warnings, filter_vars,
                   class_entities, more_vars>>

\* return docs_per_rel
DecomposeReturn ==
    /\ pc \in {"start", "decomposing"}
    /\ DecRemaining = {}
    /\ pc' = "decomposed"
    /\ UNCHANGED <<balance_vars, filter_vars, class_entities, more_vars>>

\* analyze_ranking_decomposition.py, main: log_decomposition(docs_per_class,
\* ...) and rank_data[...].append(mean(docs_per_class.get(...))).  No list
\* was created in the defaultdict when no topic was appended, so get()
\* returns None and mean(None) raises TypeError.
DecomposeLog ==
    /\ pc = "decomposed"
    /\ pc' = IF docs_per_rel.positive = << >> THEN "raised" ELSE "logged"
    /\ UNCHANGED <<balance_vars, filter_vars, class_entities, more_vars>>

NextDecompose == DecomposeTopic \/ DecomposeReturn \/ DecomposeLog

SpecDecompose == InitDecompose /\ [][NextDecompose]_vars

----------------------------------------------------------------------------
(* analyze_dreq_filtering.py: filter_ranking                               *)
(*                                                                         *)
(* A line of a ranking file is the tuple of its space-separated fields,    *)
(* <<query_id, ignored, candidate_id, rank, score, tag>>. The file is read *)
(* as a stream: FilterLine is one pass of the inner loop on the next line, *)
(* with the bookkeeping itertools.groupby does when the key changes.       *)

\* lines of the initial ranking read before the file ends
MaxLines == 3

Docs == {"d1", "d2"}

Entities == {"e1", "e2"}

ScoreFields == {"0.5", "1.5"}

\* line.split(' ')[i]
Part(line, i) == line[i + 1]

\* key=lambda x: x.split(' ')[0]
GroupKey(line) == Part(line, 0)

\* set(ent_qrels.get(qid).keys()) if qid in ent_qrels else set()
ScoredEnts(qid) ==
    IF qid \in DOMAIN ent_qrels THEN DOMAIN ent_qrels[qid] ELSE {}

\* doc_ents.get(doc_id, set())
LinkedEnts(doc_id) ==
    IF doc_id \in DOMAIN doc_ents THEN doc_ents[doc_id] ELSE {}

\* the union taken for the intersection: scored_ents | linked_ents
OverlapUnion(scored, linked) == scored \cup linked

\* overlap = scored_ents & linked_ents
Overlap(scored, linked) == scored \cap linked

\* the rank column written where the score belongs: parts[3]
OutLineRankField(qid, parts, doc_id, r) ==
    <<qid, Part(parts, 1), doc_id, r, Part(parts, 3), "Entity-Filtered">>

\* f"{qid} {parts[1]} {doc_id} {rank} {parts[4]} Entity-Filtered\n"
OutLine(qid, parts, doc_id, r) ==
    <<qid, Part(parts, 1), doc_id, r, Part(parts, 4), "Entity-Filtered">>

\* the lines that can come next: the source format has no second line for a
\* (query, candidate) pair; the rank column counts the lines of the file
NextLines ==
    {<<q, "Q0", d, ToString(Len(f_initial) + 1), sc, "BM25">> :
        q \in Topics, d \in Docs, sc \in ScoreFields}

Pairs(lines) == {<<lines[i][1], lines[i][3]>> : i \in DOMAIN lines}

\* rank_dict and the decomposition are not in use
BalanceIdle ==
    /\ ranking = << >>
    /\ qrels = << >>
    /\ result = << >>
    /\ result2 = << >>
    /\ warnings = {}
    /\ docs_per_rel = NoClasses
    /\ topics_done = << >>
    /\ skipped = {}
    /\ classes = NoClasses

\* the entity qrels: a dict per query, never empty (pytrec_eval.parse_qrel)
EntQrels ==
    UNION {[T -> UNION {[E -> {1}] : E \in (SUBSET Entities) \ {{}}}] :
              T \in SUBSET Topics}

\* collect_doc_ent_links: a set per document of the dataset, possibly empty
DocEnts == UNION {[D -> SUBSET Entities] : D \in SUBSET Docs}

InitFilter ==
    /\ pc = "filtering"
    /\ ent_qrels \in EntQrels
    /\ doc_ents \in DocEnts
    /\ f_initial = << >>
    /\ f_out = << >>
    /\ group = << >>
    /\ scored_ents = {}
    /\ rank = 1
    /\ doc_count = 0
    /\ class_entities = << >>
    /\ BalanceIdle
    /\ MoreIdle

\* "for line in group": the next line of the file; a line whose key differs
\* from the group's starts a new group, which runs "rank = 1" and
\* "scored_ents = ..." before its first line
FilterLine ==
    /\ pc = "filtering"
    /\ Len(f_initial) < MaxLines
    /\ \E line \in NextLines :
         /\ <<line[1], line[3]>> \notin Pairs(f_initial)
         /\ LET qid      == GroupKey(line)
                fresh    == group = << >> \/ group[1] # qid
                rank0    == IF fresh THEN 1 ELSE rank
                scored   == IF fresh THEN ScoredEnts(qid) ELSE scored_ents
                parts    == line
                doc_id   == Part(parts, 2)
                overlap  == Overlap(scored, LinkedEnts(doc_id))
                retained == Cardinality(overlap) > 0
            IN  /\ f_initial' = Append(f_initial, line)
                /\ group' = <<qid>>
                /\ scored_ents' = scored
                /\ doc_count' = doc_count + 1
                /\ f_out' = IF retained
                            THEN Append(f_out, OutLine(qid, parts, doc_id, rank0))
                            ELSE f_out
                /\ rank' = IF retained THEN rank0 + 1 ELSE rank0
    /\ UNCHANGED <<pc, ent_qrels, doc_ents, balance_vars, class_entities,
                   more_vars>>

\* the file ends: both files are closed and doc_count is logged
FilterClose ==
    /\ pc = "filtering"
    /\ pc' = "filtered"
    /\ UNCHANGED <<balance_vars, filter_vars, class_entities, more_vars>>

NextFilter == FilterLine \/ FilterClose

SpecFilter == InitFilter /\ [][NextFilter]_vars

----------------------------------------------------------------------------
(* analyze_shared_entities.py: get_classified_entities                     *)
(*                                                                         *)
(* qrels maps a topic to its judged documents, doc_ents is the link map of *)
(* collect_doc_ent_links: a defaultdict(set), read with .get, which does   *)
(* not create an entry and returns None for a document without one.        *)

\* judgments in the whole qrels file
MaxJudgments == 3

\* the qrels of a file of judgment lines: a topic exists with its first line
DocQrels ==
    {[t \in {p[1] : p \in DOMAIN j} |->
         [d \in {p[2] : p \in {x \in DOMAIN j : x[1] = t}} |-> j[<<t, d>>]]] :
       j \in UNION {[P -> Grades] :
                      P \in {X \in SUBSET (Topics \X Docs) :
                               Cardinality(X) <= MaxJudgments}}}

\* if rel >= 1: pos_entities.update(links.get(str(doc_id)))
PosEntities(doc_rels, links) ==
    UNION {links[d] : d \in {x \in DOMAIN doc_rels : doc_rels[x] >= 1}}

\* elif rel < 1: neg_entities.update(links.get(str(doc_id)))
NegEntities(doc_rels, links) ==
    UNION {links[d] : d \in {x \in DOMAIN doc_rels :
                               ~ (doc_rels[x] >= 1) /\ doc_rels[x] < 1}}

\* else: logging.warning(f"Invalid relevance value found: {rel}")
InvalidRels(doc_rels) ==
    {doc_rels[x] : x \in {y \in DOMAIN doc_rels :
                            ~ (doc_rels[y] >= 1) /\ ~ (doc_rels[y] < 1)}}

\* set.update(None) raises TypeError: a judged document without links
UpdateRaises(doc_rels, links) ==
    \E d \in DOMAIN doc_rels : d \notin DOMAIN links

\* shared = pos & neg; pos = pos - shared; neg = neg - shared; result[topic]
ClassifiedEntry(doc_rels, links) ==
    LET pos_entities == PosEntities(doc_rels, links)
        neg_entities == NegEntities(doc_rels, links)
        shared       == pos_entities \cap neg_entities
    IN  [shared   |-> shared,
         positive |-> pos_entities \ shared,
         negative |-> neg_entities \ shared]

InitClassify ==
    /\ pc = "classifying"
    /\ qrels \in DocQrels
    /\ doc_ents \in DocEnts
    /\ ranking = << >>
    /\ result = << >>
    /\ result2 = << >>
    /\ warnings = {}
    /\ docs_per_rel = NoClasses
    /\ topics_done = << >>
    /\ skipped = {}
    /\ classes = NoClasses
    /\ ent_qrels = << >>
    /\ f_initial = << >>
    /\ f_out = << >>
    /\ group = << >>
    /\ scored_ents = {}
    /\ rank = 1
    /\ doc_count = 0
    /\ class_entities = << >>
    /\ MoreIdle

\* one iteration of "for topic, doc_rels in tqdm(qrels.items())"
ClassifyTopic ==
    /\ pc = "classifying"
    /\ \E topic \in DOMAIN qrels \ DOMAIN class_entities :
         LET invalid == {<<topic, r>> : r \in InvalidRels(qrels[topic])}
         IN  IF UpdateRaises(qrels[topic], doc_ents)
             THEN /\ pc' = "raised"
                  /\ \E logged \in SUBSET invalid :
                        warnings' = warnings \cup logged
                  /\ UNCHANGED class_entities
             ELSE /\ class_entities' =
                       [t \in DOMAIN class_entities \cup {topic} |->
                           IF t = topic
                           THEN ClassifiedEntry(qrels[topic], doc_ents)
                           ELSE class_entities[t]]
                  /\ warnings' = warnings \cup invalid
                  /\ UNCHANGED pc
    /\ UNCHANGED <<ranking, qrels, result, result2, docs_per_rel, topics_done,
                   skipped, classes, filter_vars, more_vars>>

\* return result
ClassifyReturn ==
    /\ pc = "classifying"
    /\ DOMAIN class_entities = DOMAIN qrels
    /\ pc' = "classified"
    /\ UNCHANGED <<balance_vars, filter_vars, class_entities, more_vars>>

NextClassify == ClassifyTopic \/ ClassifyReturn

SpecClassify == InitClassify /\ [][NextClassify]_vars

----------------------------------------------------------------------------
(* analyze_dreq_filtering.py, get_statistics.  Only the keys of the rankings *)
(* are used, so a ranking is its topics and the documents ranked for each. *)

\* pytrec_eval.parse_run: a query of the run has at least one document
RunDicts ==
    UNION {[T -> (SUBSET Docs) \ {{}}] : T \in SUBSET Topics}

\* len(shared_docs) / len(fil_docs)
OverlapOfFiltered(fil_docs, ref_docs) ==
    <<Cardinality(fil_docs \cap ref_docs), Cardinality(fil_docs)>>

\* overlap = len(shared_docs) / len(ref_docs)
OverlapRatio(fil_docs, ref_docs) ==
    <<Cardinality(fil_docs \cap ref_docs), Cardinality(ref_docs)>>

\* get_statistics(save, reference) is entered with the filtered ranking
InitStats ==
    /\ pc = "stats"
    /\ fil_dict \in RunDicts
    /\ ref_dict = << >>
    /\ comparable_queries = {}
    /\ overlaps = << >>
    /\ overlap_qids = << >>
    /\ rows = << >>
    /\ topic_res = << >>
    /\ eqrels_dict = << >>
    /\ filtered_eqrels = << >>
    /\ ents_per_topic = << >>
    /\ top_k = << >>
    /\ avg_ranks = << >>
    /\ avg_prevs = << >>
    /\ BalanceIdle
    /\ FilterIdle

\* "if reference:" with no reference given: nothing is compared
StatsNoReference ==
    /\ pc = "stats"
    /\ pc' = "reported"
    /\ UNCHANGED <<balance_vars, filter_vars, class_entities, more_vars>>

\* ref_dict = collect_ranks_with_stats(reference, ...) and
\* comparable_queries = fil_dict.keys() & ref_dict.keys()
StatsReference ==
    /\ pc = "stats"
    /\ \E reference \in RunDicts :
         /\ ref_dict' = reference
         /\ comparable_queries' = DOMAIN fil_dict \cap DOMAIN reference
    /\ pc' = "comparing"
    /\ UNCHANGED <<balance_vars, filter_vars, class_entities, rows, topic_res,
                   fil_dict, overlaps, overlap_qids, eqrels_vars,
                   prevalence_vars>>

\* one iteration of "for qid in comparable_queries"
StatsQuery ==
    /\ pc = "comparing"
    /\ \E qid \in comparable_queries \ Range(overlap_qids) :
         IF Cardinality(ref_dict[qid]) = 0
         THEN /\ pc' = "raised"
              /\ UNCHANGED <<overlaps, overlap_qids>>
         ELSE /\ overlaps' =
                   Append(overlaps, OverlapRatio(fil_dict[qid], ref_dict[qid]))
              /\ overlap_qids' = Append(overlap_qids, qid)
              /\ UNCHANGED pc
    /\ UNCHANGED <<balance_vars, filter_vars, class_entities, rows, topic_res,
                   fil_dict, ref_dict, comparable_queries, eqrels_vars,
                   prevalence_vars>>

\* mean(overlaps), min(overlaps), max(overlaps): each raises on an empty list
StatsReport ==
    /\ pc = "comparing"
    /\ comparable_queries = Range(overlap_qids)
    /\ pc' = IF overlaps = << >> THEN "raised" ELSE "reported"
    /\ UNCHANGED <<balance_vars, filter_vars, class_entities, more_vars>>

NextStats == StatsNoReference \/ StatsReference \/ StatsQuery \/ StatsReport

SpecStats == InitStats /\ [][NextStats]_vars

----------------------------------------------------------------------------
(* analyze_dreq_filtering.py, collect_filtered_eqrels.  A dict is the       *)
(* sequence of its items in iteration order.                                *)

EqrelEntities == {"e1", "e2", "e3"}

\* the judgments of one query as parse_qrel delivers them: at least one
\* entity, every entity once, integer grades
EntJudgments ==
    {ents \in UNION {[1..n -> [id : EqrelEntities, score : Grades]] :
                n \in 1..Min(MaxJudgments, Cardinality(EqrelEntities))} :
        \A i, j \in DOMAIN ents : i # j => ents[i].id # ents[j].id}

\* the number of judgment lines of the queries S of an entity qrels
RECURSIVE EqrelLines(_, _)
EqrelLines(d, S) ==
    IF S = {} THEN 0
    ELSE LET t == CHOOSE x \in S : TRUE
         IN  Len(d[t]) + EqrelLines(d, S \ {t})

\* eqrels_dict = pytrec_eval.parse_qrel(f_eqrels), for an entity qrels file
\* of at most MaxJudgments lines
EqrelsDicts ==
    LET AtMost(m) == {ents \in EntJudgments : Len(ents) <= m}
    IN  UNION {{d \in [T -> AtMost(MaxJudgments - Cardinality(T) + 1)] :
                   EqrelLines(d, T) <= MaxJudgments} : T \in SUBSET Topics}

\* pos = [ent_id for ent_id, score in ents.items() if score >= 1]
EqrelsPos(ents) ==
    LET IsPos(x) == x.score >= 1
    IN  IdsOf(SelectSeq(ents, IsPos))

\* neg = [ent_id for ent_id, score in ents.items() if score == 0]
EqrelsNeg(ents) ==
    LET IsNeg(x) == x.score = 0
    IN  IdsOf(SelectSeq(ents, IsNeg))

\* k = min(len(pos), len(neg))
EqrelsK(ents) == Min(Len(EqrelsPos(ents)), Len(EqrelsNeg(ents)))

\* the positive class unsliced: {ent_id: 1 for ent_id in pos}
BalancedEqrelsAllPos(ents) ==
    [i \in DOMAIN EqrelsPos(ents) |-> [id |-> EqrelsPos(ents)[i], score |-> 1]]
    \o [i \in 1..EqrelsK(ents) |-> [id |-> EqrelsNeg(ents)[i], score |-> 0]]

\* balanced = {ent_id: 1 for ent_id in pos[:k]}
\* balanced.update({ent_id: 0 for ent_id in neg[:k]})
BalancedEqrels(ents) ==
    LET k == EqrelsK(ents)
    IN  [i \in 1..k |-> [id |-> EqrelsPos(ents)[i], score |-> 1]]
        \o [i \in 1..k |-> [id |-> EqrelsNeg(ents)[i], score |-> 0]]

InitEqrels ==
    /\ pc = "balancing_eqrels"
    /\ eqrels_dict \in EqrelsDicts
    /\ filtered_eqrels = << >>
    /\ topics_done = << >>
    /\ rows = << >>
    /\ topic_res = << >>
    /\ fil_dict = << >>
    /\ ref_dict = << >>
    /\ comparable_queries = {}
    /\ overlaps = << >>
    /\ overlap_qids = << >>
    /\ ents_per_topic = << >>
    /\ top_k = << >>
    /\ avg_ranks = << >>
    /\ avg_prevs = << >>
    /\ ranking = << >>
    /\ qrels = << >>
    /\ result = << >>
    /\ result2 = << >>
    /\ warnings = {}
    /\ docs_per_rel = NoClasses
    /\ skipped = {}
    /\ classes = NoClasses
    /\ FilterIdle

\* one iteration of "for qid, ents in eqrels_dict.items()"
EqrelsQuery ==
    /\ pc = "balancing_eqrels"
    /\ \E qid \in DOMAIN eqrels_dict \ Range(topics_done) :
         /\ topics_done' = Append(topics_done, qid)
         /\ filtered_eqrels' =
               IF EqrelsK(eqrels_dict[qid]) > 0
               THEN [t \in DOMAIN filtered_eqrels \cup {qid} |->
                       IF t = qid THEN BalancedEqrels(eqrels_dict[qid])
                                  ELSE filtered_eqrels[t]]
               ELSE filtered_eqrels
    /\ UNCHANGED <<pc, ranking, qrels, result, result2, warnings, docs_per_rel,
                   skipped, classes, filter_vars, class_entities, rows,
                   topic_res, stats_vars, eqrels_dict, prevalence_vars>>

\* return filtered_eqrels
EqrelsReturn ==
    /\ pc = "balancing_eqrels"
    /\ DOMAIN eqrels_dict = Range(topics_done)
    /\ pc' = "balanced_eqrels"
    /\ UNCHANGED <<balance_vars, filter_vars, class_entities, more_vars>>

NextEqrels == EqrelsQuery \/ EqrelsReturn

SpecEqrels == InitEqrels /\ [][NextEqrels]_vars

----------------------------------------------------------------------------
(* analyze_illegal_entities.py, validate_topic_entities.  Only the keys of *)
(* the two rankings are used.                                              *)

\* the entity ranking: a query of the run has at least one entity
EntRunDicts ==
    UNION {[T -> (SUBSET Entities) \ {{}}] : T \in SUBSET Topics}

\* valid_entities: the entities linked to the documents ranked for the topic
ValidEntities(links, docs) ==
    UNION {IF doc_id \in DOMAIN links THEN links[doc_id] ELSE {} :
              doc_id \in docs}

\* validate_topic_entities(links, i_dict, e_dict, topic); << >> is the empty
\* dict returned for a topic missing from either ranking
validate_topic_entities(links, i_dict, e_dict, topic) ==
    IF topic \notin DOMAIN i_dict \/ topic \notin DOMAIN e_dict
    THEN << >>
    ELSE LET valid_entities == ValidEntities(links, i_dict[topic])
             scored_entities == e_dict[topic]
         IN  [Topic |-> topic,
              Retrieved |-> Cardinality(valid_entities),
              Scored |-> Cardinality(scored_entities),
              Illegal |-> Cardinality(scored_entities \ valid_entities),
              Legal |-> Cardinality(scored_entities \cap valid_entities)]

InitValidate ==
    /\ pc = "validating"
    /\ BalanceIdle
    /\ FilterIdle
    /\ MoreIdle

\* one call of validate_topic_entities
ValidateTopic ==
    /\ pc = "validating"
    /\ \E links \in DocEnts, i_dict \in RunDicts, e_dict \in EntRunDicts,
          topic \in Topics :
         /\ topic_res' = [links |-> links,
                          i_dict |-> i_dict,
                          e_dict |-> e_dict,
                          topic |-> topic,
                          result |-> validate_topic_entities(links, i_dict,
                                                             e_dict, topic)]
         /\ warnings' = IF topic \notin DOMAIN i_dict \/ topic \notin DOMAIN e_dict
                        THEN {<<topic>>} ELSE {}
    /\ pc' = "validated"
    /\ UNCHANGED <<ranking, qrels, result, result2, docs_per_rel, topics_done,
                   skipped, classes, filter_vars, class_entities, rows,
                   stats_vars, eqrels_vars, prevalence_vars>>

NextValidate == ValidateTopic

SpecValidate == InitValidate /\ [][NextValidate]_vars

----------------------------------------------------------------------------
(* utils/utils.py, collect_entity_rank_prevalence, as called by            *)
(* analyze_entity_prevalence.py.  A quotient is the pair <<num, den>>.     *)

\* the greatest top-k threshold given on the command line
MaxK == 2

\* a query of the entity ranking: its entities in the order of the dict,
\* every entity once, with scores
EntRanked ==
    {ents \in UNION {[1..n -> [id : Entities, score : Scores]] :
                        n \in 1..Cardinality(Entities)} :
        \A i, j \in DOMAIN ents : i # j => ents[i].id # ents[j].id}

\* ranking = collect_ranks_with_stats(entity_ranking, "entities")
EntRankings == UNION {[T -> EntRanked] : T \in SUBSET Topics}

\* "if k < 0: k = None": << >> is None
TopKs == {<< >>} \cup {<<k>> : k \in 0..MaxK}

\* the rank enumerate(sorted_ents, start=1) gives eid in topic_ents
RankIn(topic_ents, eid) ==
    CHOOSE r \in DOMAIN topic_ents : SortedIds(topic_ents)[r] = eid

\* the topics of S in which eid is ranked
TopicsWith(ents, S, eid) == {t \in S : eid \in Keys(ents[t])}

\* sum(ent_ranks[eid]) over the topics of S
RECURSIVE SumRanks(_, _, _)
SumRanks(ents, S, eid) ==
    IF S = {} THEN 0
    ELSE LET t == CHOOSE x \in S : TRUE
         IN  RankIn(ents[t], eid) + SumRanks(ents, S \ {t}, eid)

\* "if k is None or rank <= k" for eid in topic t
CountedIn(ents, k, t, eid) ==
    k = << >> \/ RankIn(ents[t], eid) <= k[1]

\* the keys of ent_ranks: every entity of the ranking
RankedEnts(ents) == UNION {Keys(ents[t]) : t \in DOMAIN ents}

\* avg_ranks[eid] = mean(ranks)
AvgRanks(ents) ==
    [eid \in RankedEnts(ents) |->
        LET S == TopicsWith(ents, DOMAIN ents, eid)
        IN  <<SumRanks(ents, S, eid), Cardinality(S)>>]

\* ent_prevs[eid] += 1: the defaultdict gets a key only by this statement
EntPrevs(ents, k) ==
    LET Counted(eid) == {t \in TopicsWith(ents, DOMAIN ents, eid) :
                            CountedIn(ents, k, t, eid)}
        keys == {eid \in RankedEnts(ents) : Counted(eid) # {}}
    IN  [eid \in keys |-> Cardinality(Counted(eid))]

\* avg_prevs = {k: v / topic_count for k, v in ent_prevs.items()}
AvgPrevs(ents, k) ==
    LET topic_count == Cardinality(DOMAIN ents)
        ent_prevs == EntPrevs(ents, k)
    IN  [eid \in DOMAIN ent_prevs |-> <<ent_prevs[eid], topic_count>>]

InitPrevalence ==
    /\ pc = "prevalence"
    /\ ents_per_topic \in EntRankings
    /\ top_k \in TopKs
    /\ avg_ranks = << >>
    /\ avg_prevs = << >>
    /\ rows = << >>
    /\ topic_res = << >>
    /\ fil_dict = << >>
    /\ ref_dict = << >>
    /\ comparable_queries = {}
    /\ overlaps = << >>
    /\ overlap_qids = << >>
    /\ eqrels_dict = << >>
    /\ filtered_eqrels = << >>
    /\ BalanceIdle
    /\ FilterIdle

\* ent_ranks, ent_prevs = collect_entity_rank_prevalence(ranking, k=k)
CollectEntityRankPrevalence ==
    /\ pc = "prevalence"
    /\ avg_ranks' = AvgRanks(ents_per_topic)
    /\ avg_prevs' = AvgPrevs(ents_per_topic, top_k)
    /\ pc' = "collected"
    /\ UNCHANGED <<balance_vars, filter_vars, class_entities, rows, topic_res,
                   stats_vars, eqrels_vars, ents_per_topic, top_k>>

\* one iteration of "for eid in ent_ids": prev = ent_prevs.get(eid) and
\* rank = ent_ranks.get(eid); << >> is None
PrevalenceRow ==
    /\ pc = "collected"
    /\ \E eid \in DOMAIN avg_ranks \ {rows[i].eid : i \in DOMAIN rows} :
         rows' = Append(rows, [eid |-> eid,
                               prev |-> Get(avg_prevs, eid, << >>),
                               rank |-> avg_ranks[eid]])
    /\ UNCHANGED <<pc, balance_vars, filter_vars, class_entities, topic_res,
                   stats_vars, eqrels_vars, prevalence_vars>>

NextPrevalence == CollectEntityRankPrevalence \/ PrevalenceRow

SpecPrevalence == InitPrevalence /\ [][NextPrevalence]_vars

----------------------------------------------------------------------------
(* The relevance classes as the specification defines them: a candidate is *)
(* positive iff its grade exists and is >= 1, negative iff its grade       *)
(* exists and equals 0, unknown iff it has no judgment entry.              *)

IsPositive(topic_qrels, d) == d \in DOMAIN topic_qrels /\ topic_qrels[d] >= 1

IsNegative(topic_qrels, d) == d \in DOMAIN topic_qrels /\ topic_qrels[d] = 0

IsUnknown(topic_qrels, d) == d \notin DOMAIN topic_qrels

\* pos: the judged-positive candidates, by score descending, ties in order
JudgedPos(docs, topic_qrels) ==
    LET Test(d) == IsPositive(topic_qrels, d)
    IN  SelectSeq(SortedIds(docs), Test)

\* neg: the judged-negative candidates, by score descending, ties in order
JudgedNeg(docs, topic_qrels) ==
    LET Test(d) == IsNegative(topic_qrels, d)
    IN  SelectSeq(SortedIds(docs), Test)

JudgedK(docs, topic_qrels) ==
    Min(Len(JudgedPos(docs, topic_qrels)), Len(JudgedNeg(docs, topic_qrels)))

Balanced == pc \in {"balanced", "rebalanced"}

----------------------------------------------------------------------------
(* Claims about get_balanced_ranking.                                      *)

\* C1: every query entry of the output of get_balanced_ranking holds exactly
\* as many positive candidates (grade exists and is >= 1) as negative
\* candidates (grade exists and equals 0).
C1_EqualClassCounts ==
    Balanced =>
        \A t \in DOMAIN result :
            Cardinality({d \in Keys(result[t]) : IsPositive(TopicQrels(qrels, t), d)})
              = Cardinality({d \in Keys(result[t]) : IsNegative(TopicQrels(qrels, t), d)})

\* C2: no candidate without a judgment entry in its query's qrels appears in
\* the output of get_balanced_ranking.
C2_UnknownExcluded ==
    Balanced =>
        \A t \in DOMAIN result :
            \A d \in Keys(result[t]) : ~ IsUnknown(TopicQrels(qrels, t), d)

\* C3: a query of the input ranking with min(|pos|, |neg|) = 0 over its judged
\* candidates has no key in the output of get_balanced_ranking, and a warning
\* naming it is recorded.
C3_UnbalanceableDropped ==
    pc = "balanced" =>
        \A t \in DOMAIN ranking :
            JudgedK(ranking[t], TopicQrels(qrels, t)) = 0
                => t \notin DOMAIN result /\ t \in warnings

\* C4: for a query with k = min(|pos|, |neg|) > 0 the keys of the balanced
\* entry are exactly the first k ids of pos and the first k ids of neg, each
\* with its original score, and the minority class is kept in full.
C4_TopKOfEachClass ==
    pc = "balanced" =>
        \A t \in DOMAIN ranking :
            LET tq  == TopicQrels(qrels, t)
                pos == JudgedPos(ranking[t], tq)
                neg == JudgedNeg(ranking[t], tq)
                k   == JudgedK(ranking[t], tq)
            IN  k > 0 =>
                  /\ t \in DOMAIN result
                  /\ Keys(result[t]) = Range(Take(pos, k)) \cup Range(Take(neg, k))
                  /\ Items(result[t]) \subseteq Items(ranking[t])
                  /\ Len(pos) = k => Range(pos) \subseteq Keys(result[t])
                  /\ Len(neg) = k => Range(neg) \subseteq Keys(result[t])

\* C5: balancing is idempotent: get_balanced_ranking applied to its own
\* output with the same qrels returns the same queries, candidates and scores.
C5_Idempotent ==
    pc = "rebalanced" =>
        /\ DOMAIN result2 = DOMAIN result
        /\ \A t \in DOMAIN result : Items(result2[t]) = Items(result[t])

\* C5 happens: a second pass over an output that the first pass pruned
C5_Witness ==
    /\ pc = "rebalanced"
    /\ \E t \in DOMAIN result2 : Len(result2[t]) < Len(ranking[t])

----------------------------------------------------------------------------
(* Claims about collect_decomposed_ranking.                                *)

\* C10: for a query present in ranking and qrels, each ranked candidate is in
\* exactly one class: positive iff its grade exists and is >= 1, negative iff
\* its grade exists and equals 0, unknown iff it has no judgment entry; so
\* the three counts appended for the query sum to its number of candidates.
C10_ClassesPartition ==
    topics_done # << >> =>
        LET n  == Len(topics_done)
            t  == topics_done[n]
            tq == qrels[t]
        IN  /\ \A d \in Keys(ranking[t]) :
                 /\ d \in Range(classes.positive) <=> IsPositive(tq, d)
                 /\ d \in Range(classes.negative) <=> IsNegative(tq, d)
                 /\ d \in Range(classes.unknown)  <=> IsUnknown(tq, d)
            /\ docs_per_rel.positive[n] + docs_per_rel.negative[n]
                 + docs_per_rel.unknown[n] = Len(ranking[t])

\* what collect_decomposed_ranking itself does with a ranked topic missing
\* from qrels: it warns about the topic, appends nothing for it, and appends
\* one count per class for every other topic
DecomposeSkipsMissing ==
    /\ skipped \subseteq DOMAIN ranking \ DOMAIN qrels
    /\ Range(topics_done) \subseteq DOMAIN ranking \cap DOMAIN qrels
    /\ \A c \in {"positive", "negative", "unknown"} :
          Len(docs_per_rel[c]) = Len(topics_done)
    /\ pc \in {"decomposed", "logged", "raised"} =>
          /\ skipped = DOMAIN ranking \ DOMAIN qrels
          /\ Range(topics_done) = DOMAIN ranking \cap DOMAIN qrels
          /\ Len(topics_done) = Cardinality(Range(topics_done))

\* what validate_topic_entities does with a topic missing from the initial
\* or the entity ranking: it warns and returns the empty result, and only then
ValidateSkipsMissing ==
    pc = "validated" =>
        LET missing == \/ topic_res.topic \notin DOMAIN topic_res.i_dict
                       \/ topic_res.topic \notin DOMAIN topic_res.e_dict
        IN  /\ missing <=> topic_res.result = << >>
            /\ missing <=> warnings = {<<topic_res.topic>>}

\* C16: a ranked topic missing from qrels is skipped with a warning, every
\* other topic still gets exactly one count per class, and a run that
\* skipped a topic is not aborted.
C16_MissingTopicNeverFatal ==
    /\ DecomposeSkipsMissing
    /\ skipped # {} => pc # "raised"

----------------------------------------------------------------------------
(* Claims about filter_ranking.                                            *)

\* the output lines written for the input line at index i
Written(i) ==
    {j \in DOMAIN f_out : /\ f_out[j][1] = f_initial[i][1]
                          /\ f_out[j][3] = f_initial[i][3]}

\* C6: filter_ranking writes a line for a document of query q iff the
\* document's linked-entity set (empty without an entry in doc_ents)
\* intersects the scored-entity set of q (empty for a query absent from the
\* entity qrels, whose documents are therefore all dropped).
C6_RetainedIffOverlap ==
    \A i \in DOMAIN f_initial :
        LET q      == f_initial[i][1]
            d      == f_initial[i][3]
            linked == IF d \in DOMAIN doc_ents THEN doc_ents[d] ELSE {}
            scored == IF q \in DOMAIN ent_qrels THEN DOMAIN ent_qrels[q] ELSE {}
        IN  /\ Written(i) # {} <=> linked \cap scored # {}
            /\ Cardinality(Written(i)) <= 1

\* C6 happens: one document is written, one is dropped for want of an entry
\* in doc_ents, one with linked entities is dropped with its unscored query
C6_Witness ==
    /\ pc = "filtered"
    /\ \E i \in DOMAIN f_initial : Written(i) # {}
    /\ \E i \in DOMAIN f_initial : f_initial[i][3] \notin DOMAIN doc_ents
    /\ \E i \in DOMAIN f_initial :
          /\ f_initial[i][1] \notin DOMAIN ent_qrels
          /\ f_initial[i][3] \in DOMAIN doc_ents
          /\ doc_ents[f_initial[i][3]] # {}

\* the lines of query q
OfQuery(lines, q) ==
    LET Test(line) == line[1] = q
    IN  SelectSeq(lines, Test)

\* C7: for every query the ranks of its written documents, read in output
\* order, are exactly 1, 2, ..., n, for any input line sequence.
C7_DenseRanksPerQuery ==
    \A q \in Topics :
        LET written == OfQuery(f_out, q)
        IN  \A j \in DOMAIN written : written[j][4] = j

\* the input lines i1 < i2 lie in one groupby group: no key change between
SameGroup(i1, i2) ==
    \A i \in i1..i2 : f_initial[i][1] = f_initial[i2][1]

\* what the counter does: dense ranks from 1 within each groupby group, that
\* is within each maximal run of consecutive lines of one query
RanksDensePerGroup ==
    \A i \in DOMAIN f_initial : \A j \in Written(i) :
        f_out[j][4] = 1 + Cardinality({i1 \in 1..(i - 1) :
                                         SameGroup(i1, i) /\ Written(i1) # {}})

\* <<query, candidate, score>> of a line
Triple(line) == <<line[1], line[3], line[5]>>

Triples(lines) == [i \in DOMAIN lines |-> Triple(lines[i])]

RECURSIVE IsSubseq(_, _)
IsSubseq(a, b) ==
    IF a = << >> THEN TRUE
    ELSE IF b = << >> THEN FALSE
    ELSE IF Head(a) = Head(b) THEN IsSubseq(Tail(a), Tail(b))
    ELSE IsSubseq(a, Tail(b))

\* C8: the documents written form a subsequence of the input lines, score
\* field included: per query the count never grows, written documents keep
\* their relative input order and queries their grouping order.
C8_OutputIsSubsequence ==
    /\ IsSubseq(Triples(f_out), Triples(f_initial))
    /\ \A q \in Topics :
          /\ Len(OfQuery(f_out, q)) <= Len(OfQuery(f_initial, q))
          /\ IsSubseq(Triples(OfQuery(f_out, q)), Triples(OfQuery(f_initial, q)))

\* C8 happens: two documents of different scores are written around a
\* dropped one
C8_Witness ==
    /\ pc = "filtered"
    /\ Len(f_initial) = 3 /\ Len(f_out) = 2
    /\ Written(2) = {}
    /\ f_out[1][5] # f_out[2][5]

----------------------------------------------------------------------------
(* Claims about get_classified_entities.                                   *)

\* the union of the entity sets of the documents of doc_rels that Test keeps
EntityUnion(doc_rels, links, Test(_, _)) ==
    UNION {links[d] : d \in {x \in DOMAIN doc_rels : Test(doc_rels, x)}}

\* C9: for every query the returned positive, negative and shared sets are
\* pairwise disjoint, shared is the intersection of the entity union of the
\* positive documents (grade >= 1) and the entity union of the negative
\* documents (grade 0), and the three sets together are the union of the two.
C9_SharedPartition ==
    pc = "classified" =>
        \A t \in DOMAIN class_entities :
            LET c    == class_entities[t]
                posU == EntityUnion(qrels[t], doc_ents, IsPositive)
                negU == EntityUnion(qrels[t], doc_ents, IsNegative)
            IN  /\ c.positive \cap c.negative = {}
                /\ c.positive \cap c.shared = {}
                /\ c.negative \cap c.shared = {}
                /\ c.shared = posU \cap negU
                /\ c.positive \cup c.negative \cup c.shared = posU \cup negU

\* what does hold: the statement of C9 for qrels without a negative grade
SharedPartitionOfValidGrades ==
    (\A t \in DOMAIN qrels : \A d \in DOMAIN qrels[t] : qrels[t][d] >= 0)
        => C9_SharedPartition

\* a grade outside the valid domain: neither >= 1 nor 0
IsInvalid(topic_qrels, d) ==
    d \in DOMAIN topic_qrels /\ ~ (topic_qrels[d] >= 1) /\ topic_qrels[d] # 0

\* C11: a judgment whose grade is outside the valid domain (neither >= 1 nor
\* 0) is reported with a warning and skipped: the entities of its document
\* are added to neither the positive nor the negative set.
C11_InvalidGradeSkipped ==
    \A t \in DOMAIN class_entities :
        LET c    == class_entities[t]
            posU == EntityUnion(qrels[t], doc_ents, IsPositive)
            negU == EntityUnion(qrels[t], doc_ents, IsNegative)
        IN  (\E d \in DOMAIN qrels[t] : IsInvalid(qrels[t], d)) =>
              /\ \A d \in DOMAIN qrels[t] :
                    IsInvalid(qrels[t], d) => <<t, qrels[t][d]>> \in warnings
              /\ c.positive \cup c.shared = posU
              /\ c.negative \cup c.shared = negU

\* C18: get_classified_entities is total: it never raises, and it returns an
\* entry for every query of the qrels; a judged document without an entry in
\* the link map contributes no entities.
C18_Total ==
    /\ pc # "raised"
    /\ pc = "classified" => DOMAIN class_entities = DOMAIN qrels

----------------------------------------------------------------------------
(* Claims about get_balanced_counts.                                       *)

\* C15: for every query present in the ranking and in the output of
\* get_balanced_ranking on it, get_balanced_counts reports one row with
\* pruned = before - after and pruned >= 0; it reports no row for a query
\* dropped by balancing.
C15_PrunedCounts ==
    pc = "counted" =>
        /\ \A t \in DOMAIN ranking \cap DOMAIN result :
              \E i \in DOMAIN rows :
                 /\ rows[i].Query = t
                 /\ rows[i].Before = Cardinality(Keys(ranking[t]))
                 /\ rows[i].After = Cardinality(Keys(result[t]))
                 /\ \A j \in DOMAIN rows : rows[j].Query = t => j = i
        /\ \A i \in DOMAIN rows :
              /\ rows[i].Query \in DOMAIN ranking \cap DOMAIN result
              /\ rows[i].Pruned = rows[i].Before - rows[i].After
              /\ rows[i].Pruned >= 0

\* C15 happens: a row counts a pruned candidate
C15_Witness ==
    /\ pc = "counted"
    /\ \E i \in DOMAIN rows : rows[i].Pruned > 0

\* C12: once get_statistics has read a reference, its comparable queries are
\* exactly the queries whose reference document set is non-empty, and the
\* overlap computation does not raise.
C12_ComparableIsNonEmptyReference ==
    /\ pc = "comparing" =>
          comparable_queries =
              {q \in Topics : q \in DOMAIN ref_dict /\ ref_dict[q] # {}}
    /\ pc # "raised"

\* what get_statistics does guarantee: a comparable query is in both rankings
\* and its reference set is not empty, so no division by zero happens
ComparableInBoth ==
    pc = "comparing" =>
        /\ comparable_queries = DOMAIN fil_dict \cap DOMAIN ref_dict
        /\ \A q \in comparable_queries : ref_dict[q] # {}
        /\ \A i \in DOMAIN overlaps : overlaps[i][2] > 0

\* C13: each overlap get_statistics has computed is, for its query,
\* |filtered /\ reference| over |reference|, and lies between 0 and 1.
C13_OverlapOverReference ==
    /\ Len(overlaps) = Len(overlap_qids)
    /\ \A i \in DOMAIN overlaps :
         LET q == overlap_qids[i]
             num == overlaps[i][1]
             den == overlaps[i][2]
         IN  /\ q \in comparable_queries
             /\ num = Cardinality(fil_dict[q] \cap ref_dict[q])
             /\ den = Cardinality(ref_dict[q])
             /\ 0 <= num /\ num <= den /\ den > 0

\* an overlap strictly between 0 and 1 whose query has more filtered than
\* shared documents has been reported
C13_Witness ==
    /\ pc = "reported"
    /\ \E i \in DOMAIN overlaps :
         /\ 0 < overlaps[i][1]
         /\ overlaps[i][1] < overlaps[i][2]
         /\ Cardinality(fil_dict[overlap_qids[i]]) # overlaps[i][2]

\* the ids of a judgment list whose grade satisfies the class, in list order
EntsWithGrade(ents, atLeastOne) ==
    LET InClass(x) == IF atLeastOne THEN x.score >= 1 ELSE x.score = 0
    IN  IdsOf(SelectSeq(ents, InClass))

\* C14: a query collect_filtered_eqrels has visited has an entry iff
\* k = min(#grade >= 1, #grade 0) > 0; the entry holds exactly the first k
\* positive ids with grade 1 and the first k negative ids with grade 0, all
\* of them entities of the query's input, equally many of each class.
C14_FirstKOfEachClass ==
    \A i \in DOMAIN topics_done :
        LET qid == topics_done[i]
            ents == eqrels_dict[qid]
            pos == EntsWithGrade(ents, TRUE)
            neg == EntsWithGrade(ents, FALSE)
            k == Min(Len(pos), Len(neg))
        IN  /\ qid \in DOMAIN filtered_eqrels <=> k > 0
            /\ qid \in DOMAIN filtered_eqrels =>
                 LET out == filtered_eqrels[qid]
                     ones == {j \in DOMAIN out : out[j].score = 1}
                     zeros == {j \in DOMAIN out : out[j].score = 0}
                 IN  /\ ones \cup zeros = DOMAIN out
                     /\ {out[j].id : j \in ones} = Range(Take(pos, k))
                     /\ {out[j].id : j \in zeros} = Range(Take(neg, k))
                     /\ Cardinality(ones) = k
                     /\ Cardinality(zeros) = k
                     /\ Range(IdsOf(out)) \subseteq Range(IdsOf(ents))

\* a query with two positive entities and one negative one was balanced to
\* one of each: the second positive entity was cut off
C14_Witness ==
    /\ pc = "balanced_eqrels"
    /\ \E qid \in DOMAIN filtered_eqrels :
         /\ Len(EntsWithGrade(eqrels_dict[qid], TRUE)) = 2
         /\ Len(filtered_eqrels[qid]) = 2

----------------------------------------------------------------------------
(* Claims about collect_entity_rank_prevalence.                            *)

\* the 1-based rank of the entry at index i by score descending, ties in
\* the order of the ranking
RankByScore(topic_ents, i) ==
    1 + Cardinality({j \in DOMAIN topic_ents :
                        \/ topic_ents[j].score > topic_ents[i].score
                        \/ /\ topic_ents[j].score = topic_ents[i].score
                           /\ j < i})

\* where an entity appears: <<query, index>>, at most one per query
Appearances(eid) ==
    UNION {{<<t, i>> : i \in {j \in DOMAIN ents_per_topic[t] :
                                 ents_per_topic[t][j].id = eid}} :
           t \in DOMAIN ents_per_topic}

RankAt(p) == RankByScore(ents_per_topic[p[1]], p[2])

RECURSIVE SumRankAt(_)
SumRankAt(P) ==
    IF P = {} THEN 0
    ELSE LET p == CHOOSE x \in P : TRUE
         IN  RankAt(p) + SumRankAt(P \ {p})

\* C17: after collect_entity_rank_prevalence, every entity of the ranking has
\* an average rank, the mean of its 1-based ranks over the queries where it
\* appears, and a prevalence, the number of queries in which it ranks within
\* the top k (or appears at all when k is None) over the number of queries;
\* so main finds a prevalence for every entity with an average rank.
C17_PrevalenceOfEveryEntity ==
    pc = "collected" =>
        /\ \A eid \in UNION {Keys(ents_per_topic[t]) : t \in DOMAIN ents_per_topic} :
             LET P == Appearances(eid)
                 within == {p \in P : top_k = << >> \/ RankAt(p) <= top_k[1]}
             IN  /\ eid \in DOMAIN avg_ranks
                 /\ avg_ranks[eid] = <<SumRankAt(P), Cardinality(P)>>
                 /\ eid \in DOMAIN avg_prevs
                 /\ avg_prevs[eid] = <<Cardinality(within),
                                       Cardinality(DOMAIN ents_per_topic)>>
        /\ DOMAIN avg_ranks \subseteq DOMAIN avg_prevs
        /\ \A i \in DOMAIN rows : rows[i].prev # << >>

\* what collect_entity_rank_prevalence does guarantee: the average ranks of
\* all entities, and the prevalence of those that are within the top k of
\* some query
PrevalenceOfTopKEntities ==
    pc = "collected" =>
        /\ DOMAIN avg_ranks =
              UNION {Keys(ents_per_topic[t]) : t \in DOMAIN ents_per_topic}
        /\ \A eid \in DOMAIN avg_ranks :
             LET P == Appearances(eid)
                 within == {p \in P : top_k = << >> \/ RankAt(p) <= top_k[1]}
             IN  /\ avg_ranks[eid] = <<SumRankAt(P), Cardinality(P)>>
                 /\ eid \in DOMAIN avg_prevs <=> within # {}
                 /\ eid \in DOMAIN avg_prevs =>
                      avg_prevs[eid] = <<Cardinality(within),
                                         Cardinality(DOMAIN ents_per_topic)>>

=============================================================================
